---- MODULE Spec2Model ----
(***************************************************************************)
(* Blackhole DNS server (src/src/blackhole.py).                            *)
(*                                                                         *)
(* BlackholeResolver.resolve is modelled step by step for the two handler  *)
(* threads that share the one resolver (one per listener transport), with  *)
(* an exception that may be raised at every statement that calls into a    *)
(* collaborator, the statements of the except block included.             *)
(* BlackholeDNSServer.start is modelled in its two steps (the UDP listener,*)
(* then the TCP listener), between which the handler threads run.          *)
(*                                                                         *)
(* Strings are sequences of one-character strings, so that str(qname),     *)
(* rstrip('.') and endswith() are computed as the code computes them.      *)
(***************************************************************************)
EXTENDS Integers, Sequences, FiniteSets, TLC

VARIABLES
    SOA_RECORD,   \* module global SOA_RECORD (a mutable object, never reassigned)
    NS_RECORDS,   \* module global NS_RECORDS (a mutable list)
    udp,          \* BlackholeDNSServer.udp
    tcp,          \* BlackholeDNSServer.tcp
    servers,      \* BlackholeDNSServer.servers: the started listeners, in order
    startPc,      \* the thread calling start(): "idle", or "tcp" after the UDP part
    traffic,      \* which queries the clients of this run send: "all" or "probe"
    pc,           \* per handler thread: position in resolve
    request,      \* per handler thread: the request passed to resolve
    qt,           \* per handler thread: local qt
    reply,        \* per handler thread: local reply
    fault,        \* per handler thread: what raised during this call, in order
    result        \* per handler thread: the value resolve returned

vars == <<SOA_RECORD, NS_RECORDS, udp, tcp, servers, startPc, traffic,
          pc, request, qt, reply, fault, result>>

zoneVars == <<SOA_RECORD, NS_RECORDS>>
serverVars == <<udp, tcp, servers, startPc, traffic>>

----------------------------------------------------------------------------
(* Strings *)

Dot == "."

\* "romulan.zone"
BASE_DOMAIN == <<"r","o","m","u","l","a","n",".","z","o","n","e">>

\* the host names of the SOA and NS records; the resolver never takes them apart
MNAME == "blackhole.romulan.zone."
RNAME == "hostmaster.romulan.zone."

DNS_TTL == 60

\* SOA(mname, rname, times=(serial, refresh, retry, expire, minimum))
SOA_RECORD_INIT ==
    [mname |-> MNAME, rname |-> RNAME,
     times |-> <<202502191, 7200, 900, 1209600, 86400>>]

\* [NS("blackhole.romulan.zone.")]
NS_RECORDS_INIT == << [label |-> MNAME] >>

\* dnslib QTYPE, forward lookup, for the record types the clients use
QTYPE == [t \in {1, 2, 6, 16} |->
            CASE t = 1 -> "A" [] t = 2 -> "NS" [] t = 6 -> "SOA" [] t = 16 -> "TXT"]

QTYPE_SOA == 6
QTYPE_NS == 2

NOERROR == 0
SERVFAIL == 2
NXDOMAIN == 3

\* Python None
None == [none |-> TRUE]

\* s.endswith(suffix)
EndsWith(s, suffix) ==
    /\ Len(suffix) <= Len(s)
    /\ SubSeq(s, Len(s) - Len(suffix) + 1, Len(s)) = suffix

\* s.rstrip('.'): every trailing dot is removed
RECURSIVE RStrip(_)
RStrip(s) ==
    IF s # <<>> /\ s[Len(s)] = Dot THEN RStrip(SubSeq(s, 1, Len(s) - 1)) ELSE s

\* str(DNSLabel): the labels joined by dots, with the root dot at the end
RECURSIVE Str(_)
Str(labels) ==
    IF labels = <<>> THEN <<Dot>>
    ELSE IF Len(labels) = 1 THEN labels[1] \o <<Dot>>
    ELSE labels[1] \o <<Dot>> \o Str(Tail(labels))

\* DNSLabel(str): the string split into labels at the dots, root dot dropped
RECURSIVE Split(_, _, _)
Split(s, cur, acc) ==
    IF s = <<>> THEN (IF cur = <<>> THEN acc ELSE Append(acc, cur))
    ELSE IF Head(s) = Dot THEN Split(Tail(s), <<>>, Append(acc, cur))
    ELSE Split(Tail(s), Append(cur, Head(s)), acc)

DNSLabel(s) == Split(RStrip(s), <<>>, <<>>)

----------------------------------------------------------------------------
(* BlackholeResolver helpers *)

\* _is_valid_domain(qname: str)
IsValidDomain(qname) ==
    qname = BASE_DOMAIN \/ EndsWith(qname, <<Dot>> \o BASE_DOMAIN)

\* domain_str = str(qname).rstrip('.')
DomainStr(qname) == RStrip(Str(qname))

\* DNSHeader(id=..., qr=1, aa=1, ra=0[, rcode=...])
DNSHeader(id, rcode) == [id |-> id, qr |-> 1, aa |-> 1, ra |-> 0, rcode |-> rcode]

\* DNSRecord(header, q=...): no answer, authority or additional records yet
DNSRecord(header, q) ==
    [header |-> header, q |-> q, rr |-> <<>>, auth |-> <<>>, ar |-> <<>>]

\* RR(rname, rtype, rclass=1, ttl, rdata)
RR(rname, rtype, ttl, rdata) ==
    [rname |-> rname, rtype |-> rtype, rclass |-> 1, ttl |-> ttl, rdata |-> rdata]

\* DNSRecord.add_answer
AddAnswer(rec, rr) == [rec EXCEPT !.rr = Append(@, rr)]

\* DNSRecord.add_auth
AddAuth(rec, rr) == [rec EXCEPT !.auth = Append(@, rr)]

\* _handle_soa_query(reply, qname)
HandleSoaQuery(rec, qname) ==
    AddAnswer(rec, RR(qname, QTYPE_SOA, DNS_TTL, SOA_RECORD))

\* _handle_ns_query(reply, qname): one answer per entry of NS_RECORDS, in order
RECURSIVE HandleNsLoop(_, _, _)
HandleNsLoop(rec, qname, records) ==
    IF records = <<>> THEN rec
    ELSE HandleNsLoop(AddAnswer(rec, RR(qname, QTYPE_NS, DNS_TTL, Head(records))),
                      qname, Tail(records))

HandleNsQuery(rec, qname) == HandleNsLoop(rec, qname, NS_RECORDS)

\* the zone SOA appended to the answer section instead of the authority section
AddSoaToAnswers(rec) ==
    AddAnswer(rec, RR(DNSLabel(BASE_DOMAIN), QTYPE_SOA, DNS_TTL, SOA_RECORD))

\* _add_soa_to_authority(reply)
AddSoaToAuthority(rec) ==
    AddAuth(rec, RR(DNSLabel(BASE_DOMAIN), QTYPE_SOA, DNS_TTL, SOA_RECORD))

\* lines 70-85: the three dispositions of a reply
Disposition(rec, qtName, qname) ==
    IF qtName = "SOA" /\ IsValidDomain(DomainStr(qname))
      THEN HandleSoaQuery(rec, qname)
    ELSE IF qtName = "NS" /\ IsValidDomain(DomainStr(qname))
      THEN HandleNsQuery(rec, qname)
    ELSE [rec EXCEPT !.header.rcode = NXDOMAIN]

\* a SERVFAIL reply whose header id is left at a default instead of the request's
ErrorReplyDefaultId(req) == DNSRecord(DNSHeader(0, SERVFAIL), req.q)

\* lines 92-101: the SERVFAIL reply of the except block
ErrorReply(req) == DNSRecord(DNSHeader(req.header.id, SERVFAIL), req.q)

----------------------------------------------------------------------------
(* The clients' queries *)

romulan == <<"r","o","m","u","l","a","n">>
zone == <<"z","o","n","e">>

\* query names, as DNSLabel label tuples
QNames ==
    { <<romulan, zone>>,                                   \* romulan.zone.
      << <<"f","o","o">>, romulan, zone >>,                \* foo.romulan.zone.
      << <<"R","O","M","U","L","A","N">>, <<"Z","O","N","E">> >>,  \* ROMULAN.ZONE.
      << <<"x">> \o romulan, zone >>,                      \* xromulan.zone.
      << <<"e","v","i","l">>, <<"c","o","m">> >>,          \* evil.com.
      <<>> }                                               \* the root name

\* transaction ids: the ends of the 16-bit range
Ids == {0, 65535}

QTypes == DOMAIN QTYPE

\* a parsed request: header id and one question
Request(id, qname, qtype) ==
    [header |-> [id |-> id], q |-> [qname |-> qname, qtype |-> qtype]]

Queries == { Request(i, n, t) : i \in Ids, n \in QNames, t \in QTypes }

\* the one query the lifecycle runs send: romulan.zone. SOA
ProbeQueries == { Request(0, <<romulan, zone>>, QTYPE_SOA) }

\* the queries that arrive in this run
Traffic == IF traffic = "all" THEN Queries ELSE ProbeQueries

\* one handler thread per listener transport, both calling the same resolver
Handlers == {"udp", "tcp"}

\* DnslibDNSServer(resolver, address, port, tcp=...)
DnslibDNSServer(isTcp) == [tcp |-> isTcp]

\* the listener list capacity explored
MaxServers == 4

----------------------------------------------------------------------------
(* State after main() has started the server: one UDP and one TCP listener *)

Init ==
    /\ SOA_RECORD = SOA_RECORD_INIT
    /\ NS_RECORDS = NS_RECORDS_INIT
    /\ udp = TRUE
    /\ tcp = TRUE
    /\ servers = <<DnslibDNSServer(FALSE), DnslibDNSServer(TRUE)>>
    /\ startPc = "idle"
    /\ traffic = "all"
    /\ pc = [h \in Handlers |-> "idle"]
    /\ request = [h \in Handlers |-> None]
    /\ qt = [h \in Handlers |-> ""]
    /\ reply = [h \in Handlers |-> None]
    /\ fault = [h \in Handlers |-> <<>>]
    /\ result = [h \in Handlers |-> None]

\* State after BlackholeDNSServer.__init__, for any choice of the two flags
InitServer ==
    /\ SOA_RECORD = SOA_RECORD_INIT
    /\ NS_RECORDS = NS_RECORDS_INIT
    /\ udp \in BOOLEAN
    /\ tcp \in BOOLEAN
    /\ servers = <<>>
    /\ startPc = "idle"
    /\ traffic = "probe"
    /\ pc = [h \in Handlers |-> "idle"]
    /\ request = [h \in Handlers |-> None]
    /\ qt = [h \in Handlers |-> ""]
    /\ reply = [h \in Handlers |-> None]
    /\ fault = [h \in Handlers |-> <<>>]
    /\ result = [h \in Handlers |-> None]

----------------------------------------------------------------------------
(* BlackholeResolver.resolve, one action per step *)

\* what the except block uses again: the request (request.header.id,
\* request.q) and the constructors DNSHeader / DNSRecord
ErrorReplyUses == {"request", "DNSRecord"}

\* an exception raised inside the try block by collaborator `cause`: control
\* goes to the except block
Raise(h, cause) ==
    /\ pc' = [pc EXCEPT ![h] = "except"]
    /\ fault' = [fault EXCEPT ![h] = Append(@, cause)]

\* a listener of h's transport hands a parsed request to resolver.resolve
Receive(h) ==
    /\ pc[h] = "idle"
    /\ \E i \in 1..Len(servers) : servers[i].tcp = (h = "tcp")
    /\ \E r \in Traffic : request' = [request EXCEPT ![h] = r]
    /\ pc' = [pc EXCEPT ![h] = "read"]
    /\ UNCHANGED <<zoneVars, serverVars, qt, reply, fault, result>>

\* lines 49-51: qname, qtype, qt = QTYPE[qtype]; reading request.q or the
\* QTYPE lookup may raise
ReadQuestion(h) ==
    /\ pc[h] = "read"
    /\ \/ /\ qt' = [qt EXCEPT ![h] = QTYPE[request[h].q.qtype]]
          /\ pc' = [pc EXCEPT ![h] = "log"]
          /\ UNCHANGED fault
       \/ /\ \E cause \in {"request", "QTYPE"} : Raise(h, cause)
          /\ UNCHANGED qt
    /\ UNCHANGED <<zoneVars, serverVars, request, reply, result>>

\* line 53: logger.info("Received query ...")
LogReceived(h) ==
    /\ pc[h] = "log"
    /\ \/ /\ pc' = [pc EXCEPT ![h] = "build"]
          /\ UNCHANGED fault
       \/ Raise(h, "logger")
    /\ UNCHANGED <<zoneVars, serverVars, request, qt, reply, result>>

\* the reply kept on the shared resolver object instead of in a local
BuildReplyShared(h) ==
    /\ pc[h] = "build"
    /\ reply' = [g \in Handlers |->
                   DNSRecord(DNSHeader(request[h].header.id, NOERROR), request[h].q)]
    /\ pc' = [pc EXCEPT ![h] = "soa"]
    /\ UNCHANGED <<zoneVars, serverVars, request, qt, fault, result>>

\* lines 56-64: reply = DNSRecord(DNSHeader(id, qr=1, aa=1, ra=0), q=request.q);
\* reading request.header.id / request.q or a constructor may raise
BuildReply(h) ==
    /\ pc[h] = "build"
    /\ \/ /\ reply' = [reply EXCEPT ![h] =
                         DNSRecord(DNSHeader(request[h].header.id, NOERROR),
                                   request[h].q)]
          /\ pc' = [pc EXCEPT ![h] = "soa"]
          /\ UNCHANGED fault
       \/ /\ \E cause \in {"request", "DNSRecord"} : Raise(h, cause)
          /\ UNCHANGED reply
    /\ UNCHANGED <<zoneVars, serverVars, request, qt, result>>

\* lines 66-68: if qt != 'SOA': self._add_soa_to_authority(reply); RR(...) or
\* add_auth may raise
AddSoa(h) ==
    /\ pc[h] = "soa"
    /\ \/ /\ reply' = [reply EXCEPT ![h] =
                         IF qt[h] # "SOA" THEN AddSoaToAuthority(@) ELSE @]
          /\ pc' = [pc EXCEPT ![h] = "dispatch"]
          /\ UNCHANGED fault
       \/ /\ qt[h] # "SOA"
          /\ Raise(h, "RR")
          /\ UNCHANGED reply
    /\ UNCHANGED <<zoneVars, serverVars, request, qt, result>>

\* lines 70-87: classification, the SOA / NS / NXDOMAIN branch with its log
\* line, and the return; str(qname), RR(...) / add_answer or logger.info may
\* raise
Dispatch(h) ==
    /\ pc[h] = "dispatch"
    /\ \/ /\ reply' = [reply EXCEPT ![h] = None]
          /\ result' = [result EXCEPT ![h] =
                          Disposition(reply[h], qt[h], request[h].q.qname)]
          /\ pc' = [pc EXCEPT ![h] = "done"]
          /\ UNCHANGED fault
       \/ /\ Raise(h, "RR")
          /\ UNCHANGED <<reply, result>>
       \/ /\ Raise(h, "logger")
          /\ reply' = [reply EXCEPT ![h] =
                         Disposition(@, qt[h], request[h].q.qname)]
          /\ UNCHANGED result
    /\ UNCHANGED <<zoneVars, serverVars, request, qt>>

\* lines 89-102, none of them inside a try: logger.error(...) may raise; then
\* request.header.id, DNSHeader(...), request.q and DNSRecord(...) are used
\* again and may raise; otherwise the SERVFAIL reply is returned.  An
\* exception leaves resolve with its frame (request, qt, reply) and goes to
\* the transport.
Except(h) ==
    /\ pc[h] = "except"
    /\ \/ /\ result' = [result EXCEPT ![h] = ErrorReply(request[h])]
          /\ pc' = [pc EXCEPT ![h] = "done"]
          /\ UNCHANGED <<fault, request, qt>>
       \/ /\ \E cause \in {"logger"} \cup ErrorReplyUses :
               fault' = [fault EXCEPT ![h] = Append(@, cause)]
          /\ pc' = [pc EXCEPT ![h] = "raised"]
          /\ request' = [request EXCEPT ![h] = None]
          /\ qt' = [qt EXCEPT ![h] = ""]
          /\ UNCHANGED result
    /\ reply' = [reply EXCEPT ![h] = None]
    /\ UNCHANGED <<zoneVars, serverVars>>

\* the transport sends the reply (or handles the exception) and the handler
\* thread ends
Respond(h) ==
    /\ pc[h] \in {"done", "raised"}
    /\ pc' = [pc EXCEPT ![h] = "idle"]
    /\ request' = [request EXCEPT ![h] = None]
    /\ qt' = [qt EXCEPT ![h] = ""]
    /\ fault' = [fault EXCEPT ![h] = <<>>]
    /\ result' = [result EXCEPT ![h] = None]
    /\ UNCHANGED <<zoneVars, serverVars, reply>>

----------------------------------------------------------------------------
(* BlackholeDNSServer.start / stop, called from one thread *)

\* lines 174-187: start() is called; if udp, a UDP listener is constructed,
\* appended and its thread started.  A constructor that cannot bind raises
\* and start() ends there.  (The call is explored while the list has room.)
StartUdp ==
    /\ startPc = "idle"
    /\ Len(servers) + 2 <= MaxServers
    /\ \/ /\ udp
          /\ servers' = Append(servers, DnslibDNSServer(FALSE))
          /\ startPc' = "tcp"
       \/ /\ udp
          /\ UNCHANGED <<servers, startPc>>
       \/ /\ ~udp
          /\ startPc' = "tcp"
          /\ UNCHANGED servers
    /\ UNCHANGED <<zoneVars, udp, tcp, traffic, pc, request, qt, reply, fault, result>>

\* lines 189-198: if tcp, a TCP listener is constructed, appended and its
\* thread started (or the constructor raises); start() ends
StartTcp ==
    /\ startPc = "tcp"
    /\ startPc' = "idle"
    /\ \/ /\ tcp
          /\ servers' = Append(servers, DnslibDNSServer(TRUE))
       \/ UNCHANGED servers
    /\ UNCHANGED <<zoneVars, udp, tcp, traffic, pc, request, qt, reply, fault, result>>

\* lines 200-206: every listener is stopped and the list is emptied
Stop ==
    /\ startPc = "idle"
    /\ servers' = <<>>
    /\ UNCHANGED <<zoneVars, udp, tcp, startPc, traffic, pc, request, qt, reply,
                   fault, result>>

----------------------------------------------------------------------------

Next ==
    \E h \in Handlers :
        \/ Receive(h)
        \/ ReadQuestion(h)
        \/ LogReceived(h)
        \/ BuildReply(h)
        \/ AddSoa(h)
        \/ Dispatch(h)
        \/ Except(h)
        \/ Respond(h)

Spec == Init /\ [][Next]_vars

NextServer == StartUdp \/ StartTcp \/ Stop \/ Next

SpecServer == InitServer /\ [][NextServer]_vars

----------------------------------------------------------------------------
(* The specification's vocabulary (spec.md sections 3, 4.1 and 4.2) *)

\* lower-casing of the letters the query names use
Lower(c) ==
    CASE c = "R" -> "r" [] c = "O" -> "o" [] c = "M" -> "m" [] c = "U" -> "u"
      [] c = "L" -> "l" [] c = "A" -> "a" [] c = "N" -> "n" [] c = "Z" -> "z"
      [] c = "E" -> "e" [] OTHER -> c

LowerStr(s) == [i \in 1..Len(s) |-> Lower(s[i])]

\* one trailing root-label separator removed
StripRootDot(s) ==
    IF s # <<>> /\ s[Len(s)] = Dot THEN SubSeq(s, 1, Len(s) - 1) ELSE s

\* section 4.1: the normalized name
NormalizedName(qname) == LowerStr(StripRootDot(Str(qname)))

\* section 4.1: inZone
InZoneSpec(qname) ==
    \/ NormalizedName(qname) = BASE_DOMAIN
    \/ EndsWith(NormalizedName(qname), <<Dot>> \o BASE_DOMAIN)

\* the SOA record of the authoritative domain, as the authority section carries it
ZoneSoaRR ==
    [rname |-> <<romulan, zone>>, rtype |-> 6, rclass |-> 1, ttl |-> 60,
     rdata |-> SOA_RECORD_INIT]

\* resolve returned, and nothing was raised on the way
Answered(h) == pc[h] = "done" /\ fault[h] = <<>>

QName(h) == request[h].q.qname
QType(h) == request[h].q.qtype

\* the header every response carries, up to the response code
HeaderOk(h) ==
    /\ result[h].header.id = request[h].header.id
    /\ result[h].header.qr = 1
    /\ result[h].header.aa = 1
    /\ result[h].header.ra = 0

\* the SERVFAIL response: the request's id and question, no records
IsServfail(h) ==
    /\ HeaderOk(h)
    /\ result[h].header.rcode = 2
    /\ result[h].q = request[h].q
    /\ result[h].rr = <<>>
    /\ result[h].auth = <<>>

\* the negative response: NXDOMAIN, no answer, the zone SOA in authority
IsNegative(h) ==
    /\ result[h].header.rcode = 3
    /\ result[h].rr = <<>>
    /\ result[h].auth = <<ZoneSoaRR>>

----------------------------------------------------------------------------
(* Claims *)

\* C1: an NS query for an in-zone name (equal to the authoritative domain or
\* ending with "." + the authoritative domain) is answered NOERROR with one NS
\* record per configured NS host, in order, owner = queried name, ttl = default
\* TTL, and an empty authority section.
C1_NsInZoneAnswer ==
    \A h \in Handlers :
        (Answered(h) /\ QType(h) = 2 /\ IsValidDomain(DomainStr(QName(h)))) =>
            /\ result[h].header.rcode = 0
            /\ result[h].rr =
                 [i \in 1..Len(NS_RECORDS_INIT) |->
                    [rname |-> QName(h), rtype |-> 2, rclass |-> 1, ttl |-> 60,
                     rdata |-> NS_RECORDS_INIT[i]]]
            /\ result[h].auth = <<>>

\* C2: a query for a name that is not in-zone, whatever its type, is answered
\* NXDOMAIN with no answer and exactly the zone SOA record in authority.
C2_OutOfZoneNegative ==
    \A h \in Handlers :
        (Answered(h) /\ ~InZoneSpec(QName(h))) => IsNegative(h)

\* C3: an SOA query for a name equal to or under the authoritative domain is
\* answered NOERROR with exactly one answer, the SOA record with the
\* configured times and the default TTL, and an empty authority section.
C3_SoaInZoneAnswer ==
    \A h \in Handlers :
        (Answered(h) /\ QType(h) = 6 /\ InZoneSpec(QName(h))) =>
            /\ result[h].header.rcode = 0
            /\ result[h].rr =
                 << [rname |-> QName(h), rtype |-> 6, rclass |-> 1, ttl |-> 60,
                     rdata |-> SOA_RECORD_INIT] >>
            /\ result[h].auth = <<>>

\* C4: a query for an in-zone name with a type other than SOA and NS is
\* answered NXDOMAIN with no answer and the zone SOA record (owner = the
\* authoritative domain, ttl = default TTL) in authority.
C4_InZoneOtherTypeNegative ==
    \A h \in Handlers :
        (Answered(h) /\ QType(h) \notin {2, 6} /\ InZoneSpec(QName(h))) =>
            IsNegative(h)

\* C4 witness: foo.romulan.zone. A has been answered NXDOMAIN.
C4_Witness ==
    \E h \in Handlers :
        /\ Answered(h)
        /\ QType(h) = 1
        /\ QName(h) = << <<"f","o","o">>, romulan, zone >>
        /\ result[h].header.rcode = 3

\* C5: resolve never raises on a fault at a step of resolution: a call in
\* which one collaborator raised (the request on being read, the QTYPE
\* lookup, a DNSHeader / DNSRecord constructor, RR / add_auth / add_answer),
\* once or every time it was used, and no logging call failed, returns the
\* SERVFAIL response with flags qr=1, aa=1, ra=0, the request's id, and empty
\* answer and authority sections.
C5_FaultYieldsServfail ==
    \A h \in Handlers :
        (/\ pc[h] \in {"done", "raised"}
         /\ fault[h] # <<>>
         /\ \A i \in 1..Len(fault[h]) :
              fault[h][i] = fault[h][1] /\ fault[h][i] # "logger") =>
            (pc[h] = "done" /\ IsServfail(h))

\* C6: resolve treats a name as in-zone exactly when the name, with the root
\* dot stripped and lower-cased, equals the authoritative domain or ends with
\* "." + the authoritative domain: an SOA or NS query is answered NOERROR
\* exactly for those names.
C6_ClassificationNormalized ==
    \A h \in Handlers :
        (Answered(h) /\ QType(h) \in {2, 6}) =>
            /\ IsValidDomain(DomainStr(QName(h))) <=> InZoneSpec(QName(h))
            /\ (result[h].header.rcode = 0) <=> InZoneSpec(QName(h))

\* C7: a failed logging call does not keep resolve from returning: whenever
\* a logging call failed during a call of resolve, the call ends by
\* returning a response with the request's id, not by raising.
C7_LoggingFailureStillResponds ==
    \A h \in Handlers :
        (pc[h] \in {"done", "raised"}
            /\ \E i \in 1..Len(fault[h]) : fault[h][i] = "logger") =>
            (pc[h] = "done" /\ HeaderOk(h))

\* C8: every response resolve returns carries the request's transaction id,
\* qr=1, aa=1, ra=0 and a response code among NOERROR, NXDOMAIN, SERVFAIL.
C8_IdAndFlags ==
    \A h \in Handlers :
        pc[h] = "done" =>
            (HeaderOk(h) /\ result[h].header.rcode \in {0, 3, 2})

\* C8 witness: a NOERROR answer and a SERVFAIL response have been returned,
\* both for transaction id 65535.
C8_Witness ==
    /\ pc["udp"] = "done" /\ pc["tcp"] = "done"
    /\ request["udp"].header.id = 65535 /\ request["tcp"].header.id = 65535
    /\ result["udp"].header.rcode = 0
    /\ result["tcp"].header.rcode = 2

\* the response a request gets when it is resolved alone, from the zone
\* constants: the statements of resolve in sequence
ResolveAlone(req, raised) ==
    LET q == req.q
        fresh == [header |-> [id |-> req.header.id, qr |-> 1, aa |-> 1, ra |-> 0,
                              rcode |-> 0],
                  q |-> q, rr |-> <<>>, auth |-> <<>>, ar |-> <<>>]
        inZone == IsValidDomain(DomainStr(q.qname))
    IN  IF raised # <<>>
          THEN [fresh EXCEPT !.header.rcode = 2]
        ELSE IF q.qtype = 6 /\ inZone
          THEN [fresh EXCEPT !.rr = << [rname |-> q.qname, rtype |-> 6,
                                         rclass |-> 1, ttl |-> 60,
                                         rdata |-> SOA_RECORD_INIT] >>]
        ELSE IF q.qtype = 2 /\ inZone
          THEN [fresh EXCEPT !.rr = [i \in 1..Len(NS_RECORDS_INIT) |->
                                       [rname |-> q.qname, rtype |-> 2,
                                        rclass |-> 1, ttl |-> 60,
                                        rdata |-> NS_RECORDS_INIT[i]]],
                             !.auth = <<ZoneSoaRR>>]
        ELSE [fresh EXCEPT !.header.rcode = 3,
                           !.auth = IF q.qtype = 6 THEN <<>> ELSE <<ZoneSoaRR>>]

\* C9: resolve is stateless: under every interleaving of the two handler
\* threads, each returned response is the one its request gets when resolved
\* alone, and the zone constants are never modified.
C9_Stateless ==
    /\ SOA_RECORD = SOA_RECORD_INIT
    /\ NS_RECORDS = NS_RECORDS_INIT
    /\ \A h \in Handlers :
         pc[h] = "done" => result[h] = ResolveAlone(request[h], fault[h])

\* C9 witness: one call has returned an answer while the other call, for a
\* different request, is between building its reply and dispatching.
C9_Witness ==
    /\ pc["udp"] = "done" /\ fault["udp"] = <<>>
    /\ pc["tcp"] = "dispatch"
    /\ request["udp"] # request["tcp"]
    /\ result["udp"].header.rcode = 0

\* C10: start() is idempotent per transport: the server never holds more
\* than one listener per transport.
C10_OneListenerPerTransport ==
    \A t \in BOOLEAN :
        Cardinality({i \in 1..Len(servers) : servers[i].tcp = t}) <= 1

====
